---- MODULE Spec2Model ----
(***************************************************************************)
(* Model of streamlit-apps/deskdrop_eda.py: the loader load_data and the   *)
(* top-to-bottom render of the Shared Articles page.                       *)
(*                                                                         *)
(* A CSV file is modelled after tokenisation: a sequence of data rows,     *)
(* each a record of raw cells.  A raw text cell is a string ("" is the     *)
(* empty cell).  A raw cell of a numeric column is a record [k, v, ns]:    *)
(*   k = "int"   an integer literal v that fits the checker's integers,    *)
(*   k = "big"   an integer literal whose magnitude is beyond what         *)
(*               datetime64[ns] can hold as seconds (|v| > 9223372036),    *)
(*   k = "text"  a literal that is neither a number nor a null marker,     *)
(*   k = "nat"   the literal NaT, pandas' text for a missing time,         *)
(*   k = "na"    the empty cell.                                           *)
(* A datetime64[ns] value is [k |-> "datetime", v |-> whole seconds,       *)
(* ns |-> nanoseconds within the second]; NaT is [k |-> "NaT"].            *)
(***************************************************************************)
EXTENDS Integers, Sequences, FiniteSets, TLC

VARIABLES
    file,              \* the input: [exists, rows]
    args,              \* load_data's arguments: [nrows, date_col, dtypes]
    pc,                \* position of the script (or of the load_data call)
    error,             \* the exception that ended the run, "" when none
    articles_df,       \* the loaded table, NoTable before/without a load
    displayed,         \* the elements written to the page, in order
    buffer,            \* articles_df.info() output
    articles_describe, \* articles_df.describe() output
    val_counts_df,     \* value counts on lang / eventType / contentType
    author_counts_df,  \* value counts on the author attribute columns
    date_select_map,   \* the three numpy histograms
    date_freq_option,  \* the selectbox value
    date_hist,         \* the histogram handed to st.bar_chart
    dup_view,          \* the Duplicates view
    author_freq,       \* the author ranking frame
    top_authors_view   \* rows of the two most common authors

vars == <<file, args, pc, error, articles_df, displayed, buffer,
          articles_describe, val_counts_df, author_counts_df, date_select_map,
          date_freq_option, date_hist, dup_view, author_freq, top_authors_view>>

outputs == <<buffer, articles_describe, val_counts_df, author_counts_df,
             date_select_map, date_freq_option, date_hist, dup_view,
             author_freq, top_authors_view>>

-----------------------------------------------------------------------------
(* Bounds of the model *)

\* longest file, in data rows, of the general input families
MaxRows == 3

\* longest file of the family that varies authorPersonId only
MaxAuthorRows == 6

-----------------------------------------------------------------------------
(* Values *)

\* Python's None for nrows (an integer >= 0 otherwise); a date_col of None
\* or "" is the string "", which `if date_col:` treats alike
None == -1

\* the value load_data has not produced
NoTable ==
    [rows |-> <<>>,
     dtypes |-> [c \in {"timestamp", "contentId", "authorPersonId", "eventType",
                        "contentType", "authorRegion", "authorCountry",
                        "authorUserAgent", "lang", "url", "title", "text"} |-> ""],
     categories |-> [c \in {"contentType", "lang"} |-> {}],
     loaded |-> FALSE]

\* pandas' missing value in a text column after parsing
NaN == "<NaN>"

\* the default na_values of pandas.read_csv that the inputs use
NaStrings == {"", "NA", "NaN"}

IntCell(n) == [k |-> "int", v |-> n, ns |-> 0]

BigCell == [k |-> "big", v |-> 0, ns |-> 0]

TextCell == [k |-> "text", v |-> 0, ns |-> 0]

NatCell == [k |-> "nat", v |-> 0, ns |-> 0]

NaCell == [k |-> "na", v |-> 0, ns |-> 0]

NaT == [k |-> "NaT", v |-> 0, ns |-> 0]

ARTICLES_DTYPES == [contentType |-> "category", lang |-> "category"]

NoDtypes == [contentType |-> "infer", lang |-> "infer"]

TextCols == {"eventType", "contentType", "authorRegion", "authorCountry",
             "authorUserAgent", "lang", "url", "title", "text"}

NumCols == {"timestamp", "contentId", "authorPersonId"}

Cols == NumCols \cup TextCols

CatCols == {"contentType", "lang"}

Min(a, b) == IF a <= b THEN a ELSE b

-----------------------------------------------------------------------------
(* pandas.read_csv *)

\* one text cell as the parser returns it
ParseText(cell) == IF cell \in NaStrings THEN NaN ELSE cell

\* row i (0-based, the RangeIndex label) of the file as read_csv returns it:
\* text cells go through the na_values filter, numeric tokens are kept
ParseRow(i, raw) ==
    [c \in Cols \cup {"index"} |->
        IF c = "index" THEN i
        ELSE IF c \in TextCols THEN ParseText(raw[c])
        ELSE raw[c]]

\* dtype inferred for a numeric column from the cells read
InferNum(cells) ==
    IF cells = {} THEN "object"
    ELSE IF \E x \in cells : x.k \in {"text", "nat"} THEN "object"
    ELSE IF \E x \in cells : x.k = "na" THEN "float64"
    ELSE "int64"

\* dtype inferred for a text column from the cells read
InferText(cells) ==
    IF cells # {} /\ cells = {NaN} THEN "float64" ELSE "object"

ColumnValues(rows, c) == {rows[i][c] : i \in 1..Len(rows)}

\* mutant: the missing value is kept as a label
CategoriesOf_WithMissing(rows, c) == ColumnValues(rows, c)

\* the categories of a column read with dtype "category": the distinct
\* non-missing labels of the rows read
CategoriesOf(rows, c) == ColumnValues(rows, c) \ {NaN}

DtypeOf(rows, c, dtypes) ==
    IF c \in CatCols /\ dtypes[c] = "category" THEN "category"
    ELSE IF c \in NumCols THEN InferNum(ColumnValues(rows, c))
    ELSE InferText(ColumnValues(rows, c))

\* mutant: the limit is taken one row too far
RowsRead_HeaderCounted(total, nrows) ==
    IF nrows = None THEN total ELSE Min(nrows + 1, total)

\* number of rows read_csv returns for a file of total rows
RowsRead(total, nrows) == IF nrows = None THEN total ELSE Min(nrows, total)

\* mutant: a missing file reads as an empty table
ReadCsv_EmptyOnMissing(f, nrows, dtypes) ==
    LET n == IF f.exists THEN RowsRead(Len(f.rows), nrows) ELSE 0
        rows == [i \in 1..n |-> ParseRow(i - 1, f.rows[i])]
    IN  [ok |-> TRUE, err |-> "",
         data |-> [rows |-> rows,
                   dtypes |-> [c \in Cols |-> DtypeOf(rows, c, dtypes)],
                   categories |-> [c \in CatCols |->
                       IF dtypes[c] = "category"
                       THEN CategoriesOf(rows, c) ELSE {}],
                   loaded |-> TRUE]]

ReadCsv(f, nrows, dtypes) ==
    IF ~f.exists
    THEN [ok |-> FALSE, err |-> "FileNotFoundError", data |-> NoTable]
    ELSE LET n == RowsRead(Len(f.rows), nrows)
             rows == [i \in 1..n |-> ParseRow(i - 1, f.rows[i])]
         IN  [ok |-> TRUE, err |-> "",
              data |-> [rows |-> rows,
                        dtypes |-> [c \in Cols |-> DtypeOf(rows, c, dtypes)],
                        categories |-> [c \in CatCols |->
                            IF dtypes[c] = "category"
                            THEN CategoriesOf(rows, c) ELSE {}],
                        loaded |-> TRUE]]

-----------------------------------------------------------------------------
(* pandas.to_datetime(column, unit="s") *)

\* how many of `unit` make one second
UnitDiv(unit) == IF unit = "s" THEN 1 ELSE IF unit = "ms" THEN 1000 ELSE 1000000

\* mutant: the integers are taken as milliseconds
CastFromUnit_Millis(n, unit) ==
    [k |-> "datetime",
     v |-> n \div UnitDiv("ms"),
     ns |-> (n % UnitDiv("ms")) * (1000000000 \div UnitDiv("ms"))]

\* one integer counted in `unit` since the epoch, as datetime64[ns]: the int64
\* nanosecond count n * (10^9 / UnitDiv), held as its two base-10^9 limbs
\* (v the whole seconds, ns the nanoseconds within the second)
CastFromUnit(n, unit) ==
    [k |-> "datetime",
     v |-> n \div UnitDiv(unit),
     ns |-> (n % UnitDiv(unit)) * (1000000000 \div UnitDiv(unit))]

\* mutant: errors="coerce", a cell that is not a number raises nothing
CellError_Coerce(cell) ==
    IF cell.k = "big" THEN "OutOfBoundsDatetime" ELSE ""

\* the error one cell raises under errors="raise", "" when it converts
CellError(cell) ==
    IF cell.k = "text" THEN "ValueError"
    ELSE IF cell.k = "big" THEN "OutOfBoundsDatetime"
    ELSE ""

\* the empty cell and the text NaT convert to NaT
ConvertCell(cell, unit) ==
    IF cell.k \in {"na", "nat"} THEN NaT ELSE CastFromUnit(cell.v, unit)

\* the first failing row decides the exception
RECURSIVE FirstError(_, _, _)
FirstError(rows, c, i) ==
    IF i > Len(rows) THEN ""
    ELSE IF CellError(rows[i][c]) # "" THEN CellError(rows[i][c])
    ELSE FirstError(rows, c, i + 1)

ToDatetime(rows, c, unit) ==
    LET e == FirstError(rows, c, 1)
    IN  IF e # "" THEN [ok |-> FALSE, err |-> e, rows |-> <<>>]
        ELSE [ok |-> TRUE, err |-> "",
              rows |-> [i \in 1..Len(rows) |->
                          [rows[i] EXCEPT ![c] = ConvertCell(rows[i][c], unit)]]]

\* seconds since the epoch of a datetime64[ns] value: the nanosecond count
\* floor-divided by 10^9, which is its high limb
EpochSeconds(d) == d.v

-----------------------------------------------------------------------------
(* load_data *)

\* mutant: the timestamp column is converted whether designated or not
load_data_AlwaysConvert(path, nrows, date_col, dtypes) ==
    LET r == ReadCsv(path, nrows, dtypes)
    IN  IF ~r.ok THEN r
        ELSE LET t == ToDatetime(r.data.rows, "timestamp", "s")
             IN  IF ~t.ok
                 THEN [ok |-> FALSE, err |-> t.err, data |-> NoTable]
                 ELSE [ok |-> TRUE, err |-> "",
                       data |-> [r.data EXCEPT
                                   !.rows = t.rows,
                                   !.dtypes["timestamp"] = "datetime64[ns]"]]

load_data(path, nrows, date_col, dtypes) ==
    LET r == ReadCsv(path, nrows, dtypes)
    IN  IF ~r.ok THEN r
        ELSE IF date_col = "" THEN r
        ELSE IF date_col \notin Cols
        THEN [ok |-> FALSE, err |-> "KeyError", data |-> NoTable]
        ELSE LET t == ToDatetime(r.data.rows, date_col, "s")
             IN  IF ~t.ok
                 THEN [ok |-> FALSE, err |-> t.err, data |-> NoTable]
                 ELSE [ok |-> TRUE, err |-> "",
                       data |-> [r.data EXCEPT
                                   !.rows = t.rows,
                                   !.dtypes[date_col] = "datetime64[ns]"]]

-----------------------------------------------------------------------------
(* Sequences *)

RECURSIVE Reverse(_)
Reverse(s) == IF s = <<>> THEN <<>> ELSE Append(Reverse(Tail(s)), Head(s))

\* the elements of s that satisfy the mask, in order (boolean indexing)
RECURSIVE MaskSelect(_, _)
MaskSelect(s, mask) ==
    IF s = <<>> THEN <<>>
    ELSE (IF Head(mask) THEN <<Head(s)>> ELSE <<>>)
         \o MaskSelect(Tail(s), Tail(mask))

\* stable insertion of x into s, ascending on .key
RECURSIVE InsertByKey(_, _)
InsertByKey(x, s) ==
    IF s = <<>> THEN <<x>>
    ELSE IF x.key < Head(s).key THEN <<x>> \o s
    ELSE <<Head(s)>> \o InsertByKey(x, Tail(s))

\* stable ascending sort on .key (the insertion sort numpy runs on short arrays)
RECURSIVE SortByKey(_)
SortByKey(s) ==
    IF s = <<>> THEN <<>>
    ELSE InsertByKey(s[Len(s)], SortByKey(SubSeq(s, 1, Len(s) - 1)))

\* the integers of a set in ascending order
RECURSIVE AscendingSeq(_)
AscendingSeq(S) ==
    IF S = {} THEN <<>>
    ELSE LET m == CHOOSE x \in S : \A y \in S : x <= y
         IN  <<m>> \o AscendingSeq(S \ {m})

RECURSIVE SumField(_, _)
SumField(s, f) == IF s = <<>> THEN 0 ELSE Head(s)[f] + SumField(Tail(s), f)

-----------------------------------------------------------------------------
(* Series.dt accessors on a datetime64[ns] value *)

SecondsPerDay == 86400

DaysSinceEpoch(d) == d.v \div SecondsPerDay

\* calendar month 1..12 of the proleptic Gregorian date
Month(d) ==
    LET z   == DaysSinceEpoch(d) + 719468
        era == z \div 146097
        doe == z - era * 146097
        yoe == (doe - doe \div 1460 + doe \div 36524 - doe \div 146096) \div 365
        doy == doe - (365 * yoe + yoe \div 4 - yoe \div 100)
        mp  == (5 * doy + 2) \div 153
    IN  IF mp < 10 THEN mp + 3 ELSE mp - 9

\* hour of the day 0..23
Hour(d) == (d.v % SecondsPerDay) \div 3600

\* day of the week, Monday = 0 .. Sunday = 6 (1970-01-01 was a Thursday)
Weekday(d) == (DaysSinceEpoch(d) + 3) % 7

-----------------------------------------------------------------------------
(* numpy.histogram(values, bins=n)[0] *)

\* twice the lower and upper end of the range numpy picks: the data's minimum
\* and maximum, widened by 0.5 each way when they coincide, (0, 1) when empty
RangeLo2(xs) ==
    IF xs = <<>> THEN 0
    ELSE LET lo == CHOOSE x \in {xs[i] : i \in 1..Len(xs)} :
                       \A j \in 1..Len(xs) : x <= xs[j]
             hi == CHOOSE x \in {xs[i] : i \in 1..Len(xs)} :
                       \A j \in 1..Len(xs) : x >= xs[j]
         IN  IF lo = hi THEN 2 * lo - 1 ELSE 2 * lo

RangeHi2(xs) ==
    IF xs = <<>> THEN 2
    ELSE LET lo == CHOOSE x \in {xs[i] : i \in 1..Len(xs)} :
                       \A j \in 1..Len(xs) : x <= xs[j]
             hi == CHOOSE x \in {xs[i] : i \in 1..Len(xs)} :
                       \A j \in 1..Len(xs) : x >= xs[j]
         IN  IF lo = hi THEN 2 * hi + 1 ELSE 2 * hi

\* 0-based bin of x among `bins` equal-width bins over the range; the last bin
\* is closed on the right
BinIndex(x, xs, bins) ==
    LET q == ((2 * x - RangeLo2(xs)) * bins) \div (RangeHi2(xs) - RangeLo2(xs))
    IN  IF q = bins THEN bins - 1 ELSE q

\* the counts, as a sequence: element b + 1 is the count of 0-based bin b
Histogram(xs, bins) ==
    [b \in 1..bins |->
        Cardinality({i \in 1..Len(xs) : BinIndex(xs[i], xs, bins) = b - 1})]

MonthBins == 12

HourBins == 24

WeekdayBins == 7

-----------------------------------------------------------------------------
(* Aggregations of the render *)

IsNull(x, c) == IF c \in TextCols THEN x = NaN ELSE x.k \in {"na", "NaT"}

NonNullCount(rows, c) ==
    Cardinality({i \in 1..Len(rows) : ~IsNull(rows[i][c], c)})

\* DataFrame.info(verbose=True, show_counts=True): the number of entries and,
\* per column, the non-null count and the dtype
Info(df) ==
    [entries |-> Len(df.rows),
     columns |-> [c \in Cols |->
                    [non_null |-> NonNullCount(df.rows, c), dtype |-> df.dtypes[c]]]]

Occurrences(rows, c, x) == Cardinality({i \in 1..Len(rows) : rows[i][c] = x})

\* the largest tally of a non-missing label of column c, 0 when there is none
TopFreq(rows, c) ==
    LET tallies == {Occurrences(rows, c, x) : x \in ColumnValues(rows, c) \ {NaN}}
    IN  IF tallies = {} THEN 0
        ELSE CHOOSE t \in tallies : \A u \in tallies : t >= u

\* DataFrame.describe(include=["category", datetime64]): count / unique / freq
\* of the categorical columns, count / min / max of the datetime columns
\* (the mean, the quartiles and the top label are not part of the model)
Describe(df) ==
    [cat |-> [c \in {x \in CatCols : df.dtypes[x] = "category"} |->
                [count |-> NonNullCount(df.rows, c),
                 unique |-> Cardinality(ColumnValues(df.rows, c) \ {NaN}),
                 freq |-> TopFreq(df.rows, c)]],
     datetime |-> [c \in {x \in NumCols : df.dtypes[x] = "datetime64[ns]"} |->
                [count |-> NonNullCount(df.rows, c),
                 min |-> LET S == {EpochSeconds(df.rows[i][c]) :
                                     i \in {j \in 1..Len(df.rows) :
                                              ~IsNull(df.rows[j][c], c)}}
                         IN  IF S = {} THEN NaT
                             ELSE CastFromUnit(CHOOSE x \in S : \A y \in S : x <= y, "s"),
                 max |-> LET S == {EpochSeconds(df.rows[i][c]) :
                                     i \in {j \in 1..Len(df.rows) :
                                              ~IsNull(df.rows[j][c], c)}}
                         IN  IF S = {} THEN NaT
                             ELSE CastFromUnit(CHOOSE x \in S : \A y \in S : x >= y, "s")]]]

\* the labels the inputs use, in the order Python compares strings
LabelOrder ==
    <<"BR", "CONTENT REMOVED", "CONTENT SHARED", "HTML", "VIDEO", "en", "pt">>

\* sort position of a value of a melted frame; missing values sort last
LabelRank(x) ==
    IF x = NaN THEN Len(LabelOrder) + 1
    ELSE CHOOSE i \in 1..Len(LabelOrder) : LabelOrder[i] = x

\* df[cols].melt(var_name="column", value_name="value"): one (column, value)
\* row per cell, column by column
RECURSIVE Melt(_, _)
Melt(rows, cols) ==
    IF cols = <<>> THEN <<>>
    ELSE [i \in 1..Len(rows) |-> [column |-> Head(cols), value |-> rows[i][Head(cols)]]]
         \o Melt(rows, Tail(cols))

\* the groups of a melted frame in group-key order: by column, then by value
RECURSIVE MeltGroups(_, _)
MeltGroups(melted, cols) ==
    IF cols = <<>> THEN <<>>
    ELSE LET c == Head(cols)
             vals == {melted[i].value : i \in {j \in 1..Len(melted) : melted[j].column = c}}
             ranks == AscendingSeq({LabelRank(x) : x \in vals})
         IN  [k \in 1..Len(ranks) |->
                LET x == CHOOSE y \in vals : LabelRank(y) = ranks[k]
                IN  [column |-> c, value |-> x,
                     counts |-> Cardinality({i \in 1..Len(melted) :
                                  melted[i] = [column |-> c, value |-> x]}),
                     key |-> 0]]
             \o MeltGroups(melted, Tail(cols))

\* mutant: ascending=False is left out
SortValues_Ascending(s, f) ==
    SortByKey([i \in 1..Len(s) |-> [s[i] EXCEPT !.key = s[i][f]]])

\* Series.sort_values(ascending=False) on field f: pandas reverses, sorts
\* ascending and reverses again
SortValuesDescending(s, f) ==
    Reverse(SortByKey(Reverse([i \in 1..Len(s) |-> [s[i] EXCEPT !.key = s[i][f]]])))

\* .sort_values(by=["column", "counts"], ascending=[True, False]): a stable sort
\* on the pair; cols is in ascending order of column name
ColumnRank(c, cols) == CHOOSE i \in 1..Len(cols) : cols[i] = c

SortByColumnCounts(s, cols, n) ==
    SortByKey([i \in 1..Len(s) |->
        [s[i] EXCEPT !.key = ColumnRank(s[i].column, cols) * (n + 1) + (n - s[i].counts)]])

\* pd.DataFrame(df[cols].melt(...).value_counts(dropna=False))
\*     .rename(columns={0: "counts"}).sort_values(by=["column", "counts"], ...)
\* with cols given in ascending order of column name
ValueCounts(df, cols) ==
    LET melted == Melt(df.rows, cols)
        counted == SortValuesDescending(MeltGroups(melted, cols), "counts")
        sorted == SortByColumnCounts(counted, cols, Len(melted))
    IN  [i \in 1..Len(sorted) |->
            [column |-> sorted[i].column, value |-> sorted[i].value,
             counts |-> sorted[i].counts]]

DuplicateCols == {"timestamp", "eventType", "contentId", "contentType",
                  "authorPersonId", "url", "title"}

\* mutant: keep="first", the first occurrence is not marked
Duplicated_KeepFirst(rows, c) ==
    [i \in 1..Len(rows) |-> \E j \in 1..(i - 1) : rows[j][c] = rows[i][c]]

\* Series.duplicated(keep=False): every row whose value another row holds too
\* (missing values count as equal to one another)
Duplicated(rows, c) ==
    [i \in 1..Len(rows) |-> \E j \in 1..Len(rows) : j # i /\ rows[j][c] = rows[i][c]]

\* df[cols]: the projection, the index label kept
Project(rows, cols) ==
    [i \in 1..Len(rows) |-> [c \in cols \cup {"index"} |-> rows[i][c]]]

\* articles_df[[...]][articles_df["title"].duplicated(keep=False)]
DuplicatesView(df) ==
    MaskSelect(Project(df.rows, DuplicateCols), Duplicated(df.rows, "title"))

\* groupby([c]).size(): one entry per non-missing key, keys ascending
GroupSize(rows, c) ==
    LET keys == AscendingSeq({rows[i][c].v : i \in {j \in 1..Len(rows) :
                                                     rows[j][c].k = "int"}})
    IN  [k \in 1..Len(keys) |->
            [authorPersonId |-> keys[k],
             num_articles |-> Cardinality({i \in 1..Len(rows) :
                                rows[i][c] = IntCell(keys[k])}),
             key |-> 0]]

\* articles_df.groupby(["authorPersonId"]).size().sort_values(ascending=False)
\*     .to_frame(name="num_articles")
AuthorFreq(df) ==
    LET sorted == SortValuesDescending(GroupSize(df.rows, "authorPersonId"),
                                       "num_articles")
    IN  [i \in 1..Len(sorted) |->
            [authorPersonId |-> sorted[i].authorPersonId,
             num_articles |-> sorted[i].num_articles]]

\* frame["num_articles"] / frame["num_articles"].sum() * 100, one per row, as
\* the exact fraction num / den
Percent(frame) ==
    [i \in 1..Len(frame) |->
        [num |-> frame[i].num_articles * 100,
         den |-> SumField(frame, "num_articles")]]

\* frame["percent"] = ...: the frame with the new column
WithPercent(frame) ==
    [i \in 1..Len(frame) |->
        [authorPersonId |-> frame[i].authorPersonId,
         num_articles |-> frame[i].num_articles,
         percent |-> Percent(frame)[i]]]

\* articles_df[articles_df["authorPersonId"].isin(author_freq.index[:2])]
TopAuthors(df, frame) ==
    LET top == {frame[i].authorPersonId : i \in 1..Min(2, Len(frame))}
    IN  MaskSelect(df.rows,
            [i \in 1..Len(df.rows) |->
                df.rows[i]["authorPersonId"].k = "int"
                /\ df.rows[i]["authorPersonId"].v \in top])

-----------------------------------------------------------------------------
(* Inputs *)

\* a row of data/shared_articles.csv; the families below vary it
DefaultRow ==
    [timestamp |-> IntCell(1459193988), eventType |-> "CONTENT SHARED",
     contentId |-> IntCell(1), authorPersonId |-> IntCell(1),
     contentType |-> "HTML", authorRegion |-> "", authorCountry |-> "",
     authorUserAgent |-> "", lang |-> "en", url |-> "http://a", title |-> "t1",
     text |-> "x"]

\* 1969-12-31 23:59:59 Wed, 1970-01-01 00:00:00 Thu, 2016-03-28 19:39:48 Mon,
\* 2016-12-31 23:59:59 Sat, and the four cells that are no such integer
TimestampCells ==
    {IntCell(-1), IntCell(0), IntCell(1459193988), IntCell(1483228799),
     BigCell, TextCell, NatCell, NaCell}

TitleCells == {"t1", "t2", "", "NA"}

AuthorCells == {IntCell(1), IntCell(2), IntCell(3)}

TimestampRows == {[DefaultRow EXCEPT !.timestamp = x] : x \in TimestampCells}

TitleRows == {[DefaultRow EXCEPT !.title = x] : x \in TitleCells}

AuthorRows == {[DefaultRow EXCEPT !.authorPersonId = x] : x \in AuthorCells}

AuthorNaRows ==
    {[DefaultRow EXCEPT !.authorPersonId = x] : x \in AuthorCells \cup {NaCell}}

CategoryRows ==
    {[DefaultRow EXCEPT !.contentType = x, !.lang = y] :
        x \in {"HTML", "VIDEO", ""}, y \in {"en", "pt"}}

AttributeRows ==
    {[DefaultRow EXCEPT !.eventType = x, !.authorCountry = y] :
        x \in {"CONTENT SHARED", "CONTENT REMOVED"}, y \in {"", "BR"}}

SeqsUpTo(S, n) == UNION {[1..k -> S] : k \in 0..n}

\* the row sequences load_data is called on
LoadRows ==
    SeqsUpTo(TimestampRows, MaxRows) \cup SeqsUpTo(TitleRows, MaxRows)
    \cup SeqsUpTo(AuthorNaRows, MaxRows) \cup SeqsUpTo(CategoryRows, MaxRows)
    \cup SeqsUpTo(AttributeRows, MaxRows)

\* the row sequences the page is rendered on
RenderRows == LoadRows \cup SeqsUpTo(AuthorRows, MaxAuthorRows)

MissingFile == [exists |-> FALSE, rows |-> <<>>]

Files(rowSeqs) == {MissingFile} \cup {[exists |-> TRUE, rows |-> r] : r \in rowSeqs}

NoOutputs ==
    /\ buffer = "" /\ articles_describe = "" /\ val_counts_df = <<>>
    /\ author_counts_df = <<>> /\ date_select_map = <<>> /\ date_freq_option = ""
    /\ date_hist = <<>> /\ dup_view = <<>> /\ author_freq = <<>>
    /\ top_authors_view = <<>>

-----------------------------------------------------------------------------
(* load_data called on its own, with any arguments *)

InitLoad ==
    /\ file \in Files(LoadRows)
    /\ args \in [nrows : {None} \cup 0..(MaxRows + 1),
                 date_col : {"", "timestamp", "published"},
                 dtypes : {NoDtypes, ARTICLES_DTYPES}]
    /\ pc = "call"
    /\ error = ""
    /\ articles_df = NoTable
    /\ displayed = <<>>
    /\ NoOutputs

\* the call returns its table
LoadReturn ==
    /\ pc = "call"
    /\ LET r == load_data(file, args.nrows, args.date_col, args.dtypes)
       IN  /\ r.ok
           /\ articles_df' = r.data
           /\ pc' = "returned"
    /\ UNCHANGED <<file, args, error, displayed, outputs>>

\* the call raises
LoadRaise ==
    /\ pc = "call"
    /\ LET r == load_data(file, args.nrows, args.date_col, args.dtypes)
       IN  /\ ~r.ok
           /\ error' = r.err
           /\ pc' = "raised"
    /\ UNCHANGED <<file, args, articles_df, displayed, outputs>>

NextLoad == LoadReturn \/ LoadRaise

SpecLoad == InitLoad /\ [][NextLoad]_vars

-----------------------------------------------------------------------------
(* One render of the page: the script, top to bottom *)

\* the arguments of the script's one call of load_data
ScriptArgs == [nrows |-> None, date_col |-> "timestamp", dtypes |-> ARTICLES_DTYPES]

DateOptions == {"Month", "Hour", "Day of Week"}

Init ==
    /\ file \in Files(RenderRows)
    /\ args = ScriptArgs
    /\ pc = "load"
    /\ error = ""
    /\ articles_df = NoTable
    /\ displayed = <<>>
    /\ NoOutputs

\* a statement that only writes an element to the page
Show(at, element, next) ==
    /\ pc = at
    /\ displayed' = Append(displayed, element)
    /\ pc' = next
    /\ UNCHANGED <<file, args, error, articles_df, outputs>>

\* articles_df = load_data(articles, date_col="timestamp", dtypes=ARTICLES_DTYPES)
\* between the two texts of the loading prompt; an exception ends the render
LoadArticles ==
    /\ pc = "load"
    /\ LET r == load_data(file, args.nrows, args.date_col, args.dtypes)
       IN  IF r.ok
           THEN /\ articles_df' = r.data
                /\ displayed' = <<"shared_articles.csv loaded">>
                /\ pc' = "raw"
                /\ error' = error
           ELSE /\ articles_df' = articles_df
                /\ displayed' = <<"Loading shared_articles.csv...">>
                /\ pc' = "failed"
                /\ error' = r.err
    /\ UNCHANGED <<file, args, outputs>>

ShowRawData == Show("raw", "articles_df", "info")

ShowInfo ==
    /\ pc = "info"
    /\ buffer' = Info(articles_df)
    /\ displayed' = Append(displayed, "info")
    /\ pc' = "describe"
    /\ UNCHANGED <<file, args, error, articles_df, articles_describe,
                   val_counts_df, author_counts_df, date_select_map,
                   date_freq_option, date_hist, dup_view, author_freq,
                   top_authors_view>>

ShowDescribe ==
    /\ pc = "describe"
    /\ articles_describe' = Describe(articles_df)
    /\ displayed' = Append(displayed, "articles_describe")
    /\ pc' = "columns"
    /\ UNCHANGED <<file, args, error, articles_df, buffer, val_counts_df,
                   author_counts_df, date_select_map, date_freq_option,
                   date_hist, dup_view, author_freq, top_authors_view>>

ShowColumns == Show("columns", "columns", "dtypes")

ShowDtypes == Show("dtypes", "dtypes", "val_counts")

ShowValCounts ==
    /\ pc = "val_counts"
    /\ val_counts_df' = ValueCounts(articles_df, <<"contentType", "eventType", "lang">>)
    /\ displayed' = Append(displayed, "val_counts_df")
    /\ pc' = "author_counts"
    /\ UNCHANGED <<file, args, error, articles_df, buffer, articles_describe,
                   author_counts_df, date_select_map, date_freq_option,
                   date_hist, dup_view, author_freq, top_authors_view>>

ShowAuthorCounts ==
    /\ pc = "author_counts"
    /\ author_counts_df' =
           ValueCounts(articles_df, <<"authorCountry", "authorRegion", "authorUserAgent">>)
    /\ displayed' = Append(displayed, "author_counts_df")
    /\ pc' = "text_cols"
    /\ UNCHANGED <<file, args, error, articles_df, buffer, articles_describe,
                   val_counts_df, date_select_map, date_freq_option,
                   date_hist, dup_view, author_freq, top_authors_view>>

ShowTextColumns == Show("text_cols", "text columns", "hist")

\* the values of one .dt accessor over the timestamp column
DtValues(df, what) ==
    [i \in 1..Len(df.rows) |->
        IF what = "Month" THEN Month(df.rows[i]["timestamp"])
        ELSE IF what = "Hour" THEN Hour(df.rows[i]["timestamp"])
        ELSE Weekday(df.rows[i]["timestamp"])]

\* date_select_map = {...}: numpy raises ValueError when the column holds NaT
\* (the accessor yields NaN and the autodetected range is not finite)
BuildHistograms ==
    /\ pc = "hist"
    /\ IF \E i \in 1..Len(articles_df.rows) : articles_df.rows[i]["timestamp"] = NaT
       THEN /\ pc' = "failed"
            /\ error' = "ValueError"
            /\ date_select_map' = date_select_map
       ELSE /\ pc' = "select"
            /\ error' = error
            /\ date_select_map' =
                   [o \in DateOptions |->
                       Histogram(DtValues(articles_df, o),
                                 IF o = "Month" THEN MonthBins
                                 ELSE IF o = "Hour" THEN HourBins
                                 ELSE WeekdayBins)]
    /\ UNCHANGED <<file, args, articles_df, displayed, buffer, articles_describe,
                   val_counts_df, author_counts_df, date_freq_option, date_hist,
                   dup_view, author_freq, top_authors_view>>

\* the selectbox returns the user's choice; its histogram goes to the bar chart
SelectResolution ==
    /\ pc = "select"
    /\ \E o \in DateOptions :
           /\ date_freq_option' = o
           /\ date_hist' = date_select_map[o]
    /\ displayed' = Append(displayed, "bar_chart")
    /\ pc' = "duplicates"
    /\ UNCHANGED <<file, args, error, articles_df, buffer, articles_describe,
                   val_counts_df, author_counts_df, date_select_map, dup_view,
                   author_freq, top_authors_view>>

ShowDuplicates ==
    /\ pc = "duplicates"
    /\ dup_view' = DuplicatesView(articles_df)
    /\ displayed' = Append(displayed, "duplicates")
    /\ pc' = "author_freq"
    /\ UNCHANGED <<file, args, error, articles_df, buffer, articles_describe,
                   val_counts_df, author_counts_df, date_select_map,
                   date_freq_option, date_hist, author_freq, top_authors_view>>

RankAuthors ==
    /\ pc = "author_freq"
    /\ author_freq' = AuthorFreq(articles_df)
    /\ pc' = "percent"
    /\ UNCHANGED <<file, args, error, articles_df, displayed, buffer,
                   articles_describe, val_counts_df, author_counts_df,
                   date_select_map, date_freq_option, date_hist, dup_view,
                   top_authors_view>>

\* mutant: the percent column is assigned to articles_df
AddPercent_OnArticles ==
    /\ pc = "percent"
    /\ author_freq' = WithPercent(author_freq)
    /\ articles_df' =
           [articles_df EXCEPT !.rows =
               [i \in 1..Len(articles_df.rows) |->
                   [c \in Cols \cup {"index", "percent"} |->
                       IF c = "percent" THEN 100 ELSE articles_df.rows[i][c]]]]
    /\ pc' = "show_freq"
    /\ UNCHANGED <<file, args, error, displayed, buffer,
                   articles_describe, val_counts_df, author_counts_df,
                   date_select_map, date_freq_option, date_hist, dup_view,
                   top_authors_view>>

\* author_freq["percent"] = ...: the column is added to author_freq
AddPercent ==
    /\ pc = "percent"
    /\ author_freq' = WithPercent(author_freq)
    /\ pc' = "show_freq"
    /\ UNCHANGED <<file, args, error, articles_df, displayed, buffer,
                   articles_describe, val_counts_df, author_counts_df,
                   date_select_map, date_freq_option, date_hist, dup_view,
                   top_authors_view>>

ShowAuthorFreq == Show("show_freq", "author_freq", "top_authors")

ShowTopAuthors ==
    /\ pc = "top_authors"
    /\ top_authors_view' = TopAuthors(articles_df, author_freq)
    /\ displayed' = Append(displayed, "top authors")
    /\ pc' = "done"
    /\ UNCHANGED <<file, args, error, articles_df, buffer, articles_describe,
                   val_counts_df, author_counts_df, date_select_map,
                   date_freq_option, date_hist, dup_view, author_freq>>

Next ==
    \/ LoadArticles
    \/ ShowRawData
    \/ ShowInfo
    \/ ShowDescribe
    \/ ShowColumns
    \/ ShowDtypes
    \/ ShowValCounts
    \/ ShowAuthorCounts
    \/ ShowTextColumns
    \/ BuildHistograms
    \/ SelectResolution
    \/ ShowDuplicates
    \/ RankAuthors
    \/ AddPercent
    \/ ShowAuthorFreq
    \/ ShowTopAuthors

Spec == Init /\ [][Next]_vars

-----------------------------------------------------------------------------
(* Properties of load_data, checked under SpecLoad *)

\* the rows the call is to read, counted from the file and the limit alone
ExpectedRows ==
    IF args.nrows = None THEN Len(file.rows)
    ELSE IF args.nrows < Len(file.rows) THEN args.nrows ELSE Len(file.rows)

\* row i of the result carries the cells of row i of the file
FromFileRow(i) ==
    /\ articles_df.rows[i]["index"] = i - 1
    /\ \A c \in TextCols : articles_df.rows[i][c] = ParseText(file.rows[i][c])
    /\ \A c \in NumCols : articles_df.rows[i][c].v = file.rows[i][c].v
    /\ \A c \in NumCols \ {args.date_col} : articles_df.rows[i][c] = file.rows[i][c]

\* a file load_data accepts: it exists and, when a date column is designated,
\* the column exists and the cells read from it are integers in range or empty
WellFormed ==
    /\ file.exists
    /\ args.date_col # "" =>
           /\ args.date_col \in Cols
           /\ \A i \in 1..ExpectedRows : file.rows[i][args.date_col].k \in {"int", "na"}

\* C1: for a well-formed file the call returns, with exactly total_rows rows
\* when no limit is given and min(n, total_rows) rows under a limit n, and the
\* rows kept are the first rows of the file, in file order.
C1_RowCount ==
    /\ pc = "raised" => ~WellFormed
    /\ pc = "returned" =>
           /\ Len(articles_df.rows) = ExpectedRows
           /\ args.nrows = None => Len(articles_df.rows) = Len(file.rows)
           /\ \A i \in 1..Len(articles_df.rows) : FromFileRow(i)

C1_Witness ==
    /\ pc = "returned"
    /\ args.nrows \in 1..(Len(file.rows) - 1)
    /\ Len(articles_df.rows) = args.nrows
    /\ file.rows[1] # file.rows[Len(file.rows)]

\* a datetime64[ns] value that is a point in time: not NaT, nanoseconds in range
ValidDatetime(d) == d.k = "datetime" /\ d.ns \in 0..999999999

\* d is not later than e
NotLater(d, e) == d.v < e.v \/ (d.v = e.v /\ d.ns <= e.ns)

C7_NoOtherTransformation ==
    pc = "returned" =>
        /\ Len(articles_df.rows) = ExpectedRows
        /\ \A i \in 1..Len(articles_df.rows) :
               /\ DOMAIN articles_df.rows[i] = Cols \cup {"index"}
               /\ FromFileRow(i)
        /\ \A c \in Cols :
               /\ articles_df.dtypes[c] = "category"
                      <=> (c \in CatCols /\ args.dtypes[c] = "category")
               /\ articles_df.dtypes[c] = "datetime64[ns]" <=> c = args.date_col
        /\ args.date_col = "" =>
               \A i \in 1..Len(articles_df.rows) : \A c \in NumCols :
                   articles_df.rows[i][c].k # "datetime"

C7_Witness ==
    /\ pc = "returned"
    /\ args.date_col = ""
    /\ args.dtypes = NoDtypes
    /\ args.nrows = None
    /\ Len(articles_df.rows) = 3
    /\ file.rows[1] = file.rows[3]
    /\ file.rows[1]["title"] = "t2"
    /\ file.rows[2]["title"] = "t1"

\* the distinct non-empty raw cells of column c of the whole file
RawValues(c) == {file.rows[i][c] : i \in 1..Len(file.rows)} \ {""}

\* C8: each column of the categorical mapping is categorical with a finite
\* label set no larger than the number of distinct raw values of the column,
\* and every non-missing value of the column is one of the labels.
C8_Categories ==
    (pc = "returned" /\ args.dtypes = ARTICLES_DTYPES) =>
        \A c \in CatCols :
            /\ articles_df.dtypes[c] = "category"
            /\ IsFiniteSet(articles_df.categories[c])
            /\ Cardinality(articles_df.categories[c]) <= Cardinality(RawValues(c))
            /\ \A i \in 1..Len(articles_df.rows) :
                   articles_df.rows[i][c] # NaN =>
                       articles_df.rows[i][c] \in articles_df.categories[c]

C8_Witness ==
    /\ pc = "returned"
    /\ args.dtypes = ARTICLES_DTYPES
    /\ Len(articles_df.rows) = 3
    /\ articles_df.categories["contentType"] = {"HTML", "VIDEO"}
    /\ articles_df.categories["lang"] = {"en", "pt"}
    /\ \E i \in 1..3 : articles_df.rows[i]["contentType"] = NaN

-----------------------------------------------------------------------------
(* Properties of the render, checked under Spec *)

\* the statement that writes `element` to the page has run
Executed(element) == \E k \in 1..Len(displayed) : displayed[k] = element

\* how often the title of row i occurs in the loaded table
TitleCount(i) ==
    Cardinality({j \in 1..Len(articles_df.rows) :
                   articles_df.rows[j]["title"] = articles_df.rows[i]["title"]})

\* C3: the duplicates view holds exactly the rows whose title occurs two or
\* more times in the loaded table (each once, in table order, with the seven
\* columns of the view) and no row whose title is unique.
C3_DuplicatesExact ==
    Executed("duplicates") =>
        /\ \A i \in 1..Len(articles_df.rows) :
               (\E k \in 1..Len(dup_view) : dup_view[k]["index"] = i - 1)
                   <=> TitleCount(i) >= 2
        /\ \A k \in 1..Len(dup_view) :
               /\ dup_view[k]["index"] \in 0..(Len(articles_df.rows) - 1)
               /\ \A c \in DuplicateCols :
                      dup_view[k][c] = articles_df.rows[dup_view[k]["index"] + 1][c]
        /\ \A k, l \in 1..Len(dup_view) :
               k < l => dup_view[k]["index"] < dup_view[l]["index"]

C3_Witness ==
    /\ Executed("duplicates")
    /\ Len(articles_df.rows) = 3
    /\ Len(dup_view) = 2
    /\ dup_view[1]["index"] = 0
    /\ dup_view[2]["index"] = 2
    /\ dup_view[1]["title"] = "t2"

\* the rows of the loaded table whose authorPersonId is a
AuthorRowCount(a) ==
    Cardinality({i \in 1..Len(articles_df.rows) :
                   articles_df.rows[i]["authorPersonId"] = IntCell(a)})

\* C4: the ranking lists every author once, in non-increasing order of the
\* author's number of rows; each percent is the author's count over the total
\* of the listed counts, times 100, so the percents sum to 100; and with the
\* rows split 3/2/1 among three authors the 3-count author is first, at 50.
C4_AuthorRanking ==
    pc \in {"show_freq", "top_authors", "done"} =>
        LET total == SumField(author_freq, "num_articles")
        IN  /\ \A i \in 1..Len(author_freq) :
                   /\ author_freq[i].num_articles
                          = AuthorRowCount(author_freq[i].authorPersonId)
                   /\ author_freq[i].num_articles >= 1
                   /\ author_freq[i].percent.den # 0
                   /\ author_freq[i].percent.num * total
                          = 100 * author_freq[i].num_articles
                                * author_freq[i].percent.den
            /\ \A i, j \in 1..Len(author_freq) :
                   /\ i < j => author_freq[i].num_articles >= author_freq[j].num_articles
                   /\ i # j => author_freq[i].authorPersonId # author_freq[j].authorPersonId
            /\ \A i \in 1..Len(articles_df.rows) :
                   articles_df.rows[i]["authorPersonId"].k = "int" =>
                       \E k \in 1..Len(author_freq) :
                           author_freq[k].authorPersonId
                               = articles_df.rows[i]["authorPersonId"].v
            /\ Len(author_freq) > 0 =>
                   SumField([i \in 1..Len(author_freq) |-> author_freq[i].percent], "num")
                       = 100 * author_freq[1].percent.den
            /\ (/\ Len(articles_df.rows) = 6
                /\ {AuthorRowCount(a) : a \in 1..3} = {1, 2, 3})
               => /\ author_freq[1].num_articles = 3
                  /\ author_freq[1].percent.num = 50 * author_freq[1].percent.den

C4_Witness ==
    /\ pc = "show_freq"
    /\ Len(articles_df.rows) = 6
    /\ AuthorRowCount(1) = 1
    /\ AuthorRowCount(2) = 3
    /\ AuthorRowCount(3) = 2
    /\ author_freq[1].authorPersonId = 2
    /\ author_freq[1].percent = [num |-> 300, den |-> 6]
    /\ articles_df.rows[1]["authorPersonId"] = IntCell(1)

\* C5: with the path missing the load ends in FileNotFoundError; no table is
\* returned, empty or other, and no later statement of the render runs.
C5_MissingFile ==
    ~file.exists =>
        /\ pc \in {"load", "failed"}
        /\ articles_df = NoTable
        /\ NoOutputs
        /\ pc = "load" => ENABLED LoadArticles
        /\ pc = "failed" =>
               /\ error = "FileNotFoundError"
               /\ displayed = <<"Loading shared_articles.csv...">>
               /\ ~ENABLED Next

C5_Witness ==
    /\ ~file.exists
    /\ pc = "failed"
    /\ error = "FileNotFoundError"
    /\ Len(displayed) = 1

\* C9: every statement after the load leaves articles_df as it was: its rows,
\* columns, values, dtypes and categories.
C9_TableImmutable ==
    [][pc # "load" => articles_df' = articles_df]_vars

C9_Witness ==
    /\ pc = "done"
    /\ Len(articles_df.rows) = 3
    /\ Len(author_freq) = 2
    /\ author_freq[2].percent.num = 100
    /\ Len(dup_view) = 3
    /\ date_hist = date_select_map["Hour"]
    /\ articles_df = load_data(file, None, "timestamp", ARTICLES_DTYPES).data

\* the rows of the loaded table whose accessor value is x
CalendarCount(what, x) ==
    Cardinality({i \in 1..Len(articles_df.rows) :
                   DtValues(articles_df, what)[i] = x})

\* C10: the Month histogram has 12 counts, count i the rows of calendar month
\* i + 1; the Hour histogram 24 counts, count h the rows of hour h; the Day of
\* Week histogram 7 counts, count d the rows of weekday d; whatever months,
\* hours and weekdays the table covers.
C10_CalendarBins ==
    pc \in {"select", "duplicates", "author_freq", "percent", "show_freq",
            "top_authors", "done"} =>
        /\ Len(date_select_map["Month"]) = 12
        /\ Len(date_select_map["Hour"]) = 24
        /\ Len(date_select_map["Day of Week"]) = 7
        /\ \A m \in 1..12 : date_select_map["Month"][m] = CalendarCount("Month", m)
        /\ \A h \in 0..23 : date_select_map["Hour"][h + 1] = CalendarCount("Hour", h)
        /\ \A d \in 0..6 :
               date_select_map["Day of Week"][d + 1] = CalendarCount("Day of Week", d)

====
